---------------------------- MODULE Spec2Model ----------------------------
(***************************************************************************)
(* A model of remap-rolling.js (nanoa296/repoart): the script that rewrites *)
(* the 2019 dates of a github-painter template onto the rolling profile    *)
(* grid.  Two of the script's variants are modelled: the final one         *)
(* (centered, 53 columns, future avoidance; src/remap-rolling.js:115-250)  *)
(* and the right-aligned 52-column one (src/remap-rolling.js:1-113).       *)
(*                                                                         *)
(* Time is counted in whole days since 1970-01-01 (the code's millisecond  *)
(* values are all multiples of 86400000 and are only ever divided by it).  *)
(*                                                                         *)
(* A text is a sequence of atoms: a word, a run of in-line blanks (SP), a  *)
(* line terminator (NL), the fragment  echo '<date>' >> foobar.txt, or the *)
(* fragment  commit --date='<any>' -m '<date>'  that follows "git".        *)
(***************************************************************************)
EXTENDS Integers, Sequences, FiniteSets, TLC

VARIABLES
  file,            \* the template as read from disk (fs.readFileSync)
  today,           \* the UTC calendar day of the run (new Date())
  pc,              \* position in main()
  input,           \* main's variable `input`
  msgs,            \* the commit-message dates collected by msgRe
  idxs,            \* their day indices from the 2019 grid start
  colRows,         \* idxs.map(toColRow)
  minCol, maxCol, width,
  windowStartUTC, todayRow,
  shiftCols,       \* shiftCols (final variant) / finalShiftCols (right-aligned)
  parsed,          \* the strings handed to parseFullDayUTC so far
  err,             \* "none", or the message of the uncaught Error
  written,         \* whether process.stdout.write has been called
  stdout           \* what it was called with

vars == <<file, today, pc, input, msgs, idxs, colRows, minCol, maxCol, width,
          windowStartUTC, todayRow, shiftCols, parsed, err, written, stdout>>

---------------------------------------------------------------------------
(* Bounds of the model *)

MaxLines == 2
TodaySpan == 2
MaxSanLines == 3

---------------------------------------------------------------------------
(* Program constants *)

GRID_WEEKS == 53
targetMaxCol == 51
AnchorYear == 2019

DOW == <<"Sun", "Mon", "Tue", "Wed", "Thu", "Fri", "Sat">>
MON == <<"Jan", "Feb", "Mar", "Apr", "May", "Jun",
         "Jul", "Aug", "Sep", "Oct", "Nov", "Dec">>

---------------------------------------------------------------------------
(* The JavaScript built-ins the script relies on *)

\* Array.prototype.indexOf on MON: the 0-based position, or -1.
IndexOfMON(s) ==
  IF \E k \in DOMAIN MON : MON[k] = s
    THEN (CHOOSE k \in DOMAIN MON : MON[k] = s) - 1
    ELSE -1

\* Days since 1970-01-01 of the proleptic Gregorian day y-m-d (m in 1..12).
DaysFromCivil(y, m, d) ==
  LET yy  == IF m <= 2 THEN y - 1 ELSE y
      era == yy \div 400
      yoe == yy - era * 400
      mp  == IF m > 2 THEN m - 3 ELSE m + 9
      doy == (153 * mp + 2) \div 5 + d - 1
      doe == yoe * 365 + yoe \div 4 - yoe \div 100 + doy
  IN  era * 146097 + doe - 719468

\* The inverse: the calendar day of a day number.
CivilFromDays(n) ==
  LET z   == n + 719468
      era == z \div 146097
      doe == z - era * 146097
      yoe == (doe - doe \div 1460 + doe \div 36524 - doe \div 146096) \div 365
      doy == doe - (365 * yoe + yoe \div 4 - yoe \div 100)
      mp  == (5 * doy + 2) \div 153
      d   == doy - (153 * mp + 2) \div 5 + 1
      m   == IF mp < 10 THEN mp + 3 ELSE mp - 9
      y   == yoe + era * 400
  IN  [y |-> IF m <= 2 THEN y + 1 ELSE y, m |-> m, d |-> d]

\* Date.UTC(year, monthIndex, day): month indices outside 0..11 and days
\* outside the month roll over into the neighbouring months.
DateUTC(y, mIdx, d) ==
  DaysFromCivil(y + (mIdx \div 12), (mIdx % 12) + 1, 1) + d - 1

\* Date.prototype.getUTCDay: 0 = Sunday .. 6 = Saturday.
getUTCDay(n) == (n + 4) % 7

\* The % operator of JavaScript: the remainder takes the dividend's sign.
JsRem(a, b) == IF a >= 0 THEN a % b ELSE -((-a) % b)

---------------------------------------------------------------------------
(* Date strings *)

\* "<dow> <mon> <dd> <yyyy> <hms> <zone>".  sp says whether the separators
\* after the first four fields are single spaces; FULL_2019 puts \s there,
\* which a tab or any other blank satisfies as well.
DateStr(dow, mon, dd, yyyy, hms, zone, sp) ==
  [dow |-> dow, mon |-> mon, dd |-> dd, yyyy |-> yyyy, hms |-> hms,
   zone |-> zone, sp |-> sp]

\* A string that is no date at all.
NotADate == [junk |-> "yesterday"]

\* FULL_2019: three-letter day and month names, two digits, the year 2019.
MatchesFULL_2019(s) == "yyyy" \in DOMAIN s /\ s.yyyy = AnchorYear

\* parseFullDayUTC's pattern /^([A-Z][a-z]{2}) ([A-Z][a-z]{2}) (\d{2}) (\d{4}) /
\* matches exactly when the separators are single spaces.
ParseMatches(s) == s.sp

\* parseFullDayUTC's value when the pattern matches (it throws otherwise).
parseFullDayUTC(s) == DateUTC(s.yyyy, IndexOfMON(s.mon), s.dd)

fmtUTCNoon(dayUTC) ==
  LET c == CivilFromDays(dayUTC)
  IN  DateStr(DOW[getUTCDay(dayUTC) + 1], MON[c.m], c.d, c.y,
              "12:00:00", "GMT+0000 (UTC)", TRUE)

gridStartUTC(year) ==
  LET jan1 == DateUTC(year, 0, 1) IN jan1 - getUTCDay(jan1)

weekStartUTC(dayUTC) == dayUTC - getUTCDay(dayUTC)

start2019 == gridStartUTC(AnchorYear)

toColRow(i) == [col |-> i \div 7, row |-> JsRem(i, 7)]

fromColRow(c, r) == c * 7 + r

\* Math.floor((parseFullDayUTC(s) - start2019) / 86400000)
DayIndex(s) == parseFullDayUTC(s) - start2019

---------------------------------------------------------------------------
(* Texts *)

W(s) == [k |-> "w", v |-> s]
SP == [k |-> "sp"]
NL == [k |-> "nl"]
EchoRec(d) == [k |-> "echo", tok |-> d]
CommitRec(d, m) == [k |-> "commit", date |-> d, msg |-> m]

\* \s matches blanks and line terminators alike.
IsWS(a) == a.k \in {"sp", "nl"}

\* ^ under the m flag: the start of the text or just after a line terminator.
AtLineStart(t, i) == i = 1 \/ t[i - 1] = NL

\* \s* from position i: the first position that holds no white space.
RECURSIVE SkipWS(_, _)
SkipWS(t, i) == IF i <= Len(t) /\ IsWS(t[i]) THEN SkipWS(t, i + 1) ELSE i

\* .*$ from position i: "." stops at a line terminator.
RECURSIVE LineEnd(_, _)
LineEnd(t, i) == IF i <= Len(t) /\ t[i] # NL THEN LineEnd(t, i + 1) ELSE i

\* The words lits[j..] separated by \s+, matched from position i: the
\* position after the last word, or 0 when they do not match.
RECURSIVE MatchWords(_, _, _, _)
MatchWords(t, i, lits, j) ==
  IF i > Len(t) \/ t[i] # W(lits[j]) THEN 0
  ELSE IF j = Len(lits) THEN i + 1
  ELSE LET e == SkipWS(t, i + 1)
       IN  IF e = i + 1 THEN 0 ELSE MatchWords(t, e, lits, j + 1)

\* The setup/network patterns, in the order they are applied.
DropPatterns ==
  << <<"mkdir", "github_painter">>,
     <<"cd", "github_painter">>,
     <<"git", "init">>,
     <<"git", "remote", "add", "origin">>,
     <<"git", "pull", "origin">> >>

\* /^w1\s+w2...\s+wn.*$/gm at position i: the position after the match, or 0.
MatchDrop(t, i, lits) ==
  IF ~AtLineStart(t, i) THEN 0
  ELSE LET e == MatchWords(t, i, lits, 1)
       IN  IF e = 0 THEN 0 ELSE LineEnd(t, e)

\* input.replace(re, ""): every match, found left to right in t, is dropped.
RECURSIVE ReplaceDrop(_, _, _)
ReplaceDrop(t, i, lits) ==
  IF i > Len(t) THEN <<>>
  ELSE LET e == MatchDrop(t, i, lits)
       IN  IF e # 0 THEN ReplaceDrop(t, e, lits)
           ELSE <<t[i]>> \o ReplaceDrop(t, i + 1, lits)

\* [...].forEach(re => input = input.replace(re, ""))
RECURSIVE SanitizeFrom(_, _)
SanitizeFrom(t, p) ==
  IF p > Len(DropPatterns) THEN t
  ELSE SanitizeFrom(ReplaceDrop(t, 1, DropPatterns[p]), p + 1)

Sanitized(t) == SanitizeFrom(t, 1)

\* git\s+commit\s+--date='[^']*'\s+-m\s+'(FULL_2019)' starting at position i:
\* the position of the commit fragment, or 0.
CommitAt(t, i) ==
  IF i > Len(t) \/ t[i] # W("git") THEN 0
  ELSE LET e == SkipWS(t, i + 1)
       IN  IF e > i + 1 /\ e <= Len(t) /\ t[e].k = "commit"
              /\ MatchesFULL_2019(t[e].msg)
           THEN e ELSE 0

\* msgRe = (?:^|\n) followed by the commit pattern, flags gm.
RECURSIVE MsgMatches(_, _)
MsgMatches(t, i) ==
  IF i > Len(t) THEN <<>>
  ELSE IF AtLineStart(t, i) /\ CommitAt(t, i) # 0
       THEN <<t[CommitAt(t, i)].msg>> \o MsgMatches(t, CommitAt(t, i) + 1)
       ELSE MsgMatches(t, i + 1)

\* The positions of the commit fragments commitRe matches (no line anchor).
CommitMatches(t) == {CommitAt(t, i) : i \in 1..Len(t)} \ {0}

\* The positions of the echo fragments echoRe matches.
EchoMatches(t) ==
  {i \in 1..Len(t) : t[i].k = "echo" /\ MatchesFULL_2019(t[i].tok)}

---------------------------------------------------------------------------
(* The Grid Mapper *)

rightmostCol == GRID_WEEKS - 1

MinOf(S) == CHOOSE x \in S : \A y \in S : x <= y
MaxOf(S) == CHOOSE x \in S : \A y \in S : x >= y

\* A shift that puts the Drawing's last column on the current week.
CenteredRightAligned(w, mn) == (GRID_WEEKS - w) - mn

\* 1) Center the drawing by columns.
Centered(w, mn) == ((GRID_WEEKS - w) \div 2) - mn

\* 2) Clamp to the window: the left bound first, then the right bound.
Clamped(s, mn, mx) ==
  LET s1 == IF mn + s < 0 THEN s + (-(mn + s)) ELSE s
  IN  IF mx + s1 > rightmostCol THEN s1 - (mx + s1 - rightmostCol) ELSE s1

violatesFuture(p, s, tr) == (p.col + s = rightmostCol) /\ (p.row > tr)

\* The loop without its left-bound guard.
RECURSIVE AvoidFutureLoopNoFloor(_, _, _, _)
AvoidFutureLoopNoFloor(crs, mn, s, tr) ==
  IF \E k \in DOMAIN crs : violatesFuture(crs[k], s, tr)
    THEN AvoidFutureLoopNoFloor(crs, mn, s - 1, tr)
    ELSE s

\* 3) while (colRows.some(violatesFuture) && minCol + shiftCols > 0) shiftCols -= 1
RECURSIVE AvoidFutureLoop(_, _, _, _)
AvoidFutureLoop(crs, mn, s, tr) ==
  IF (\E k \in DOMAIN crs : violatesFuture(crs[k], s, tr)) /\ (mn + s > 0)
    THEN AvoidFutureLoop(crs, mn, s - 1, tr)
    ELSE s

\* The right-aligned variant: shiftCols = targetMaxCol - maxCol, pushed right
\* when the earliest column would fall before the window.
finalShiftCols(mn, mx) ==
  LET s == targetMaxCol - mx
      earliestShiftedCol == mn + s
  IN  IF earliestShiftedCol < 0 THEN s - earliestShiftedCol ELSE s

\* The day index, counted from the window start, that remapOne computes.
newIdxFromWindow(s, shift) ==
  LET p == toColRow(DayIndex(s)) IN fromColRow(p.col + shift, p.row)

remapOne(s, shift, ws) == fmtUTCNoon(ws + newIdxFromWindow(s, shift))

\* A callback that rewrites the -m field only.
RewriteCommitKeepsDate(a, shift, ws) ==
  CommitRec(a.date, remapOne(a.msg, shift, ws))

\* The replacement commitRe's callback returns for one commit fragment.
RewriteCommit(a, shift, ws) ==
  LET mapped == remapOne(a.msg, shift, ws) IN CommitRec(mapped, mapped)

\* The replacement echoRe's callback returns for one echo fragment.
RewriteEcho(a, shift, ws) == EchoRec(remapOne(a.tok, shift, ws))

\* The atoms of t at the positions P, in text order.
RECURSIVE PickSeq(_, _, _)
PickSeq(t, P, i) ==
  IF i > Len(t) THEN <<>>
  ELSE (IF i \in P THEN <<t[i]>> ELSE <<>>) \o PickSeq(t, P, i + 1)

\* The calls of parseFullDayUTC made for the strings ss, in order: the
\* first string the pattern rejects throws and ends them.
RECURSIVE UpToThrow(_)
UpToThrow(ss) ==
  IF ss = <<>> THEN <<>>
  ELSE IF ~ParseMatches(Head(ss)) THEN <<Head(ss)>>
  ELSE <<Head(ss)>> \o UpToThrow(Tail(ss))

Throws(ss) == \E k \in DOMAIN ss : ~ParseMatches(ss[k])

---------------------------------------------------------------------------
(* The templates the model runs the script on *)

In2019(dow, mon, dd, sp) ==
  DateStr(dow, mon, dd, AnchorYear, "00:00:00",
          "GMT-0500 (Eastern Standard Time)", sp)

Jan01 == In2019("Tue", "Jan", 1, TRUE)
Dec31 == In2019("Tue", "Dec", 31, TRUE)
Foo01 == In2019("Sat", "Foo", 1, TRUE)      \* no month of that name
Dec99 == In2019("Tue", "Dec", 99, TRUE)     \* no such day of the month
Jan24Tab == In2019("Thu", "Jan", 24, FALSE) \* tab-separated
Jan01of2020 ==
  DateStr("Wed", "Jan", 1, AnchorYear + 1, "00:00:00",
          "GMT-0500 (Eastern Standard Time)", TRUE)

SampleDates == {Jan01, Dec31, Foo01, Dec99, Jan24Tab}

OtherDate(d) == IF d = Dec31 THEN Jan01 ELSE Dec31

\* What the --date field of a template line with the -m date d may hold:
\* the same date and, for two of the dates, another date or no date.
DateFields(d) ==
  IF d \in {Jan01, Dec31} THEN {d, OtherDate(d), NotADate} ELSE {d}

LineTemplates ==
  {<<EchoRec(d)>> : d \in {Jan01, Dec31, Jan24Tab}}
  \cup UNION {{<<W("git"), SP, CommitRec(a, d)>> : a \in DateFields(d)}
               : d \in SampleDates}
  \cup {<<SP, W("git"), SP, CommitRec(d, d)>> : d \in {Dec31, Jan24Tab}}
  \cup {<<W("git"), SP, CommitRec(Jan01of2020, Jan01of2020)>>,
        <<W("git"), SP, W("init")>>,
        <<W("x")>>}

SanLineTemplates ==
  {<<>>, <<W("x")>>,
   <<W("mkdir")>>, <<W("github_painter")>>, <<W("git")>>, <<W("init")>>,
   <<W("mkdir"), SP, W("github_painter")>>,
   <<W("cd"), SP, W("github_painter"), SP, W("x")>>,
   <<W("git"), SP, W("init")>>,
   <<SP, W("git"), SP, W("init")>>,
   <<W("git"), SP, W("remote"), SP, W("add"), SP, W("origin"), SP, W("x")>>,
   <<W("git"), SP, W("pull"), SP, W("origin"), SP, W("x")>>}

RECURSIVE JoinLines(_)
JoinLines(ls) ==
  IF ls = <<>> THEN <<>>
  ELSE IF Len(ls) = 1 THEN ls[1]
  ELSE ls[1] \o <<NL>> \o JoinLines(Tail(ls))

TextsOf(lines, n) == {JoinLines(ls) : ls \in UNION {[1..k -> lines] : k \in 0..n}}

TodayFirst == DaysFromCivil(2026, 11, 8)   \* a Sunday

---------------------------------------------------------------------------
(* main() *)

InitRest ==
  /\ pc = "start"
  /\ input = file
  /\ msgs = <<>>
  /\ idxs = <<>>
  /\ colRows = <<>>
  /\ minCol = 0 /\ maxCol = 0 /\ width = 0
  /\ windowStartUTC = 0 /\ todayRow = 0
  /\ shiftCols = 0
  /\ parsed = <<>>
  /\ err = "none"
  /\ written = FALSE
  /\ stdout = <<>>

Init ==
  /\ file \in TextsOf(LineTemplates, MaxLines)
  /\ today \in TodayFirst .. (TodayFirst + TodaySpan)
  /\ InitRest

Sanitize ==
  /\ pc = "start"
  /\ input' = Sanitized(input)
  /\ pc' = "collect"
  /\ UNCHANGED <<file, today, msgs, idxs, colRows, minCol, maxCol, width,
                 windowStartUTC, todayRow, shiftCols, parsed, err, written, stdout>>

\* An early return that writes the text as read, not the sanitized one.
CollectAnchorsWritesFile ==
  /\ pc = "collect"
  /\ msgs' = MsgMatches(input, 1)
  /\ IF msgs' = <<>>
       THEN /\ written' = TRUE
            /\ stdout' = file
            /\ pc' = "done"
       ELSE /\ pc' = "indices"
            /\ UNCHANGED <<written, stdout>>
  /\ UNCHANGED <<file, today, input, idxs, colRows, minCol, maxCol, width,
                 windowStartUTC, todayRow, shiftCols, parsed, err>>

CollectAnchors ==
  /\ pc = "collect"
  /\ msgs' = MsgMatches(input, 1)
  /\ IF msgs' = <<>>
       THEN /\ written' = TRUE
            /\ stdout' = input
            /\ pc' = "done"
       ELSE /\ pc' = "indices"
            /\ UNCHANGED <<written, stdout>>
  /\ UNCHANGED <<file, today, input, idxs, colRows, minCol, maxCol, width,
                 windowStartUTC, todayRow, shiftCols, parsed, err>>

DayIndices ==
  /\ pc = "indices"
  /\ parsed' = parsed \o UpToThrow(msgs)
  /\ IF Throws(msgs)
       THEN /\ err' = "Bad date"
            /\ pc' = "error"
            /\ UNCHANGED <<idxs, colRows, minCol, maxCol, width>>
       ELSE /\ idxs' = [k \in DOMAIN msgs |-> DayIndex(msgs[k])]
            /\ colRows' = [k \in DOMAIN msgs |-> toColRow(DayIndex(msgs[k]))]
            /\ minCol' = MinOf({colRows'[k].col : k \in DOMAIN msgs})
            /\ maxCol' = MaxOf({colRows'[k].col : k \in DOMAIN msgs})
            /\ width' = maxCol' - minCol' + 1
            /\ pc' = "grid"
            /\ UNCHANGED err
  /\ UNCHANGED <<file, today, input, msgs, windowStartUTC, todayRow, shiftCols,
                 written, stdout>>

RollingGrid ==
  /\ pc = "grid"
  /\ windowStartUTC' = weekStartUTC(today) - (GRID_WEEKS - 1) * 7
  /\ todayRow' = getUTCDay(today)
  /\ pc' = "center"
  /\ UNCHANGED <<file, today, input, msgs, idxs, colRows, minCol, maxCol, width,
                 shiftCols, parsed, err, written, stdout>>

Center ==
  /\ pc = "center"
  /\ shiftCols' = Centered(width, minCol)
  /\ pc' = "clamp"
  /\ UNCHANGED <<file, today, input, msgs, idxs, colRows, minCol, maxCol, width,
                 windowStartUTC, todayRow, parsed, err, written, stdout>>

Clamp ==
  /\ pc = "clamp"
  /\ shiftCols' = Clamped(shiftCols, minCol, maxCol)
  /\ pc' = "avoid"
  /\ UNCHANGED <<file, today, input, msgs, idxs, colRows, minCol, maxCol, width,
                 windowStartUTC, todayRow, parsed, err, written, stdout>>

AvoidFuture ==
  /\ pc = "avoid"
  /\ shiftCols' = AvoidFutureLoop(colRows, minCol, shiftCols, todayRow)
  /\ pc' = "echo"
  /\ UNCHANGED <<file, today, input, msgs, idxs, colRows, minCol, maxCol, width,
                 windowStartUTC, todayRow, parsed, err, written, stdout>>

\* An echo pass that writes its result out before the commit pass runs.
ReplaceEchoStreaming ==
  /\ pc = "echo"
  /\ LET P == EchoMatches(input)
         dates == [k \in DOMAIN PickSeq(input, P, 1) |-> PickSeq(input, P, 1)[k].tok]
     IN  /\ parsed' = parsed \o UpToThrow(dates)
         /\ IF Throws(dates)
              THEN /\ err' = "Bad date"
                   /\ pc' = "error"
                   /\ UNCHANGED <<input, written, stdout>>
              ELSE /\ input' = [i \in DOMAIN input |->
                                  IF i \in P
                                    THEN RewriteEcho(input[i], shiftCols, windowStartUTC)
                                    ELSE input[i]]
                   /\ written' = TRUE
                   /\ stdout' = input'
                   /\ pc' = "commit"
                   /\ UNCHANGED err
  /\ UNCHANGED <<file, today, msgs, idxs, colRows, minCol, maxCol, width,
                 windowStartUTC, todayRow, shiftCols>>

ReplaceEcho ==
  /\ pc = "echo"
  /\ LET P == EchoMatches(input)
         dates == [k \in DOMAIN PickSeq(input, P, 1) |-> PickSeq(input, P, 1)[k].tok]
     IN  /\ parsed' = parsed \o UpToThrow(dates)
         /\ IF Throws(dates)
              THEN /\ err' = "Bad date"
                   /\ pc' = "error"
                   /\ UNCHANGED input
              ELSE /\ input' = [i \in DOMAIN input |->
                                  IF i \in P
                                    THEN RewriteEcho(input[i], shiftCols, windowStartUTC)
                                    ELSE input[i]]
                   /\ pc' = "commit"
                   /\ UNCHANGED err
  /\ UNCHANGED <<file, today, msgs, idxs, colRows, minCol, maxCol, width,
                 windowStartUTC, todayRow, shiftCols, written, stdout>>

ReplaceCommit ==
  /\ pc = "commit"
  /\ LET P == CommitMatches(input)
         dates == [k \in DOMAIN PickSeq(input, P, 1) |-> PickSeq(input, P, 1)[k].msg]
     IN  /\ parsed' = parsed \o UpToThrow(dates)
         /\ IF Throws(dates)
              THEN /\ err' = "Bad date"
                   /\ pc' = "error"
                   /\ UNCHANGED input
              ELSE /\ input' = [i \in DOMAIN input |->
                                  IF i \in P
                                    THEN RewriteCommit(input[i], shiftCols, windowStartUTC)
                                    ELSE input[i]]
                   /\ pc' = "write"
                   /\ UNCHANGED err
  /\ UNCHANGED <<file, today, msgs, idxs, colRows, minCol, maxCol, width,
                 windowStartUTC, todayRow, shiftCols, written, stdout>>

WriteOut ==
  /\ pc = "write"
  /\ written' = TRUE
  /\ stdout' = input
  /\ pc' = "done"
  /\ UNCHANGED <<file, today, input, msgs, idxs, colRows, minCol, maxCol, width,
                 windowStartUTC, todayRow, shiftCols, parsed, err>>

Next ==
  \/ Sanitize
  \/ CollectAnchors
  \/ DayIndices
  \/ RollingGrid
  \/ Center
  \/ Clamp
  \/ AvoidFuture
  \/ ReplaceEcho
  \/ ReplaceCommit
  \/ WriteOut

Spec == Init /\ [][Next]_vars

---------------------------------------------------------------------------
(* The right-aligned 52-column variant: the same main() with another grid *)

RollingGridColAlign ==
  /\ pc = "grid"
  /\ windowStartUTC' = weekStartUTC(today) - 51 * 7
  /\ pc' = "align"
  /\ UNCHANGED <<file, today, input, msgs, idxs, colRows, minCol, maxCol, width,
                 todayRow, shiftCols, parsed, err, written, stdout>>

RightAlign ==
  /\ pc = "align"
  /\ shiftCols' = finalShiftCols(minCol, maxCol)
  /\ pc' = "echo"
  /\ UNCHANGED <<file, today, input, msgs, idxs, colRows, minCol, maxCol, width,
                 windowStartUTC, todayRow, parsed, err, written, stdout>>

NextColAlign ==
  \/ Sanitize
  \/ CollectAnchors
  \/ DayIndices
  \/ RollingGridColAlign
  \/ RightAlign
  \/ ReplaceEcho
  \/ ReplaceCommit
  \/ WriteOut

SpecColAlign == Init /\ [][NextColAlign]_vars

---------------------------------------------------------------------------
(* The Sanitizer on its own: applied to a text, then to its own output *)

InitSanitize ==
  /\ file \in TextsOf(SanLineTemplates, MaxSanLines)
  /\ today = TodayFirst
  /\ InitRest

Resanitize ==
  /\ pc = "collect"
  /\ input' = Sanitized(input)
  /\ pc' = "resanitized"
  /\ UNCHANGED <<file, today, msgs, idxs, colRows, minCol, maxCol, width,
                 windowStartUTC, todayRow, shiftCols, parsed, err, written, stdout>>

NextSanitize == Sanitize \/ Resanitize

SpecSanitize == InitSanitize /\ [][NextSanitize]_vars

---------------------------------------------------------------------------
(* Properties *)

\* The anchors are mapped and shiftCols has its final value.
ShiftFinal == colRows # <<>> /\ pc \in {"echo", "commit", "write", "done", "error"}

\* The anchors are mapped and both clamp corrections have been applied.
AfterClamp == colRows # <<>> /\ pc \in {"avoid", "echo", "commit", "write", "done", "error"}

\* C1 (as claimed): with the final shiftCols, every anchor coordinate that
\* lands in the rightmost column has a row no later than today's row.
C1_NoFuture ==
  ShiftFinal =>
    \A k \in DOMAIN colRows :
      (colRows[k].col + shiftCols = rightmostCol) => (colRows[k].row <= todayRow)

\* C2: when the Drawing is at most GRID_WEEKS columns wide, every anchor
\* coordinate shifted by the final shiftCols lies in columns 0..rightmostCol,
\* and the future-avoidance pass leaves the leftmost shifted column >= 0.
C2_Bounds ==
  (ShiftFinal /\ width <= GRID_WEEKS) =>
    /\ \A k \in DOMAIN colRows :
         0 <= colRows[k].col + shiftCols /\ colRows[k].col + shiftCols <= rightmostCol
    /\ minCol + shiftCols >= 0

C2_Witness ==
  /\ ShiftFinal
  /\ width = GRID_WEEKS
  /\ minCol + shiftCols = 0
  /\ maxCol + shiftCols = rightmostCol
  /\ \E k \in DOMAIN colRows : violatesFuture(colRows[k], shiftCols, todayRow)

\* C3 (as claimed): any two anchors keep their rows and their column
\* distance under the mapping, and the two emitted calendar days are as many
\* days apart as the two original calendar days.
C3_RigidTranslation ==
  ShiftFinal =>
    \A k1, k2 \in DOMAIN msgs :
      LET p1 == colRows[k1]
          p2 == colRows[k2]
          q1 == [col |-> p1.col + shiftCols, row |-> p1.row]
          q2 == [col |-> p2.col + shiftCols, row |-> p2.row]
          e1 == parseFullDayUTC(remapOne(msgs[k1], shiftCols, windowStartUTC))
          e2 == parseFullDayUTC(remapOne(msgs[k2], shiftCols, windowStartUTC))
      IN  /\ q1.row = p1.row /\ q2.row = p2.row
          /\ q2.col - q1.col = p2.col - p1.col
          /\ e2 - e1 = parseFullDayUTC(msgs[k2]) - parseFullDayUTC(msgs[k1])

\* C4: a date string that fails parseFullDayUTC's pattern ends the run in an
\* error, and no run both raises that error and writes output.
C4_ParseFailureAtomic ==
  /\ (\E k \in DOMAIN parsed : ~ParseMatches(parsed[k]))
       => (pc = "error" /\ err # "none")
  /\ (err # "none") => (~written /\ stdout = <<>>)
  /\ written => (err = "none" /\ \A k \in DOMAIN parsed : ParseMatches(parsed[k]))

\* The error is raised while rewriting, after the anchors parsed cleanly.
C4_Witness ==
  /\ pc = "error" /\ err = "Bad date"
  /\ colRows # <<>>
  /\ ~written

\* C5: in the output, every commit line the Rewriter matched carries one
\* and the same string in --date and -m, that string is the mapping of the
\* line's original -m date, and two lines with the same -m date come out
\* identical whatever their --date fields held.
C5_CommitFields ==
  (pc = "done" /\ colRows # <<>>) =>
    LET S == Sanitized(file)
    IN  /\ Len(stdout) = Len(S)
        /\ \A i \in CommitMatches(S) :
             /\ stdout[i].k = "commit"
             /\ stdout[i].date = stdout[i].msg
             /\ stdout[i].msg =
                  fmtUTCNoon(windowStartUTC
                             + 7 * (toColRow(DayIndex(S[i].msg)).col + shiftCols)
                             + toColRow(DayIndex(S[i].msg)).row)
        /\ \A i, j \in CommitMatches(S) :
             S[i].msg = S[j].msg => stdout[i] = stdout[j]

\* Two matched commit lines with the same -m date, one whose --date is no
\* date at all and one whose --date is another date, have been rewritten.
C5_Witness ==
  /\ pc = "done" /\ written /\ colRows # <<>>
  /\ \E i, j \in CommitMatches(Sanitized(file)) :
       LET S == Sanitized(file)
       IN  /\ S[i].msg = S[j].msg
           /\ S[i].date = NotADate
           /\ S[j].date # NotADate /\ S[j].date # S[j].msg

\* C6: when the sanitized text holds no commit line with an anchor-year
\* message date, no date is parsed, no error is raised, and the run ends
\* having written exactly the sanitized text.
C6_PassThrough ==
  (CommitMatches(Sanitized(file)) = {}) =>
    /\ parsed = <<>>
    /\ err = "none"
    /\ pc \in {"start", "collect", "done"}
    /\ (pc = "done" => (written /\ stdout = Sanitized(file)))
    /\ (pc # "done" => ~written)

\* The pass-through of a text that lost a setup line and keeps an echo line
\* with an anchor-year date.
C6_Witness ==
  /\ pc = "done" /\ written
  /\ CommitMatches(Sanitized(file)) = {}
  /\ EchoMatches(stdout) # {}
  /\ stdout # file

\* C7 (as claimed): for a Drawing wider than GRID_WEEKS columns, after the
\* two clamp corrections the leftmost shifted column is >= 0.
C7_LeftBoundDominates ==
  (AfterClamp /\ width > GRID_WEEKS) => (minCol + shiftCols >= 0)

\* C8 (as claimed): the Sanitizer applied to its own output changes nothing.
C8_Idempotent ==
  (pc = "resanitized") => (input = Sanitized(file))

\* C9 (as claimed): every day index computed from a collected date goes
\* through toColRow and fromColRow unchanged, with a row in 0..6.
C9_RoundTrip ==
  \A k \in DOMAIN idxs :
    /\ fromColRow(toColRow(idxs[k]).col, toColRow(idxs[k]).row) = idxs[k]
    /\ toColRow(idxs[k]).row \in 0..6

\* A date string that names a calendar day of 2019.
IsCalendarDayOf2019(s) ==
  /\ s.yyyy = AnchorYear
  /\ IndexOfMON(s.mon) >= 0
  /\ CivilFromDays(parseFullDayUTC(s)) =
       [y |-> AnchorYear, m |-> IndexOfMON(s.mon) + 1, d |-> s.dd]

\* C10 (as claimed): in the right-aligned variant, when the anchors are
\* calendar days of 2019, every anchor's new day index lies in 0..51*7+6.
C10_InWindow ==
  (ShiftFinal /\ \A k \in DOMAIN msgs : IsCalendarDayOf2019(msgs[k])) =>
    \A k \in DOMAIN msgs :
      /\ newIdxFromWindow(msgs[k], shiftCols) >= 0
      /\ newIdxFromWindow(msgs[k], shiftCols) <= 51 * 7 + 6

AnchorPositions(t) ==
  {CommitAt(t, i) : i \in {j \in 1..Len(t) : AtLineStart(t, j)}} \ {0}

\* C12 (as claimed): every commit line the Rewriter has rewritten was
\* collected as an anchor and its column lies in minCol..maxCol, and no
\* commit line with an anchor-year -m date is written out unchanged because
\* no anchor was found.
C12_ExtractorRewriterAgree ==
  LET S == Sanitized(file)
  IN  /\ (pc \in {"write", "done"} /\ colRows # <<>>) =>
           \A i \in CommitMatches(S) :
             (input[i] # S[i]) =>
               /\ i \in AnchorPositions(S)
               /\ minCol <= toColRow(DayIndex(S[i].msg)).col
               /\ toColRow(DayIndex(S[i].msg)).col <= maxCol
      /\ (pc = "done" /\ msgs = <<>>) => CommitMatches(stdout) = {}

=============================================================================
